---------------------------- MODULE Spec2Model ----------------------------
(***************************************************************************)
(* Identity and credential management of travelDesk247: AuthService       *)
(* (register, login, logout, refreshToken, validateToken, getUserInfo,    *)
(* changePassword, requestPasswordReset, verifyPasswordReset,             *)
(* verifyEmail) over the users, agents, corporate_users, otp_codes and    *)
(* sessions tables.                                                       *)
(*                                                                         *)
(* The tables hold the columns the service reads and writes and enforce   *)
(* the unique indexes users_email_key and sessions_token_key.  register   *)
(* runs inside db.$transaction and is modelled statement by statement,    *)
(* one request per element of Procs; the other handlers issue             *)
(* auto-committed statements and are modelled as one action each, and     *)
(* verifyPasswordReset, verifyEmail and deleteById also statement by      *)
(* statement for the properties of concurrent requests.  OtpService       *)
(* (findValidOtp, markAsVerified, updateById, deleteById) and the         *)
(* statuses the controllers answer with are modelled beside it.           *)
(* Time is the wall clock in milliseconds.                                *)
(***************************************************************************)
EXTENDS Integers, FiniteSets, Sequences, TLC

VARIABLES
    users,           \* committed rows of "users"
    agents,          \* committed rows of "agents"
    corporateUsers,  \* committed rows of "corporate_users"
    otpCodes,        \* committed rows of "otp_codes"
    sessions,        \* committed rows of "sessions"
    now,             \* Date.now(), milliseconds
    nextUserId,      \* ids handed out by user.create so far
    reg,             \* the in-flight register requests, one per process
    calls,           \* the in-flight verify and delete requests, one per process
    issued,          \* history: tokens returned by generateToken
    consumed,        \* history: <<type, code>> pairs a verify call accepted
    last             \* history: the last completed call and its outcome

vars == <<users, agents, corporateUsers, otpCodes, sessions, now, nextUserId,
          reg, calls, issued, consumed, last>>

db == <<users, agents, corporateUsers, otpCodes, sessions>>

---------------------------------------------------------------------------
(* Bounds of the model *)

MaxUserIds == 2       \* user.create statements that get an id
MaxOtps == 2          \* rows of otp_codes, committed or in a transaction
MaxIssued == 2        \* tokens generateToken returns
MaxHours == 1         \* one-hour steps of the clock
MaxQuarters == 1      \* quarter-hour steps of the clock past an hour
MaxSubTicks == 1      \* half-second steps of the clock past a quarter hour

Procs == {1, 2}
Emails == {"a@x.com", "b@x.com"}
Passwords == {"secret123", "newpass1"}
RegisterPasswords == {"secret123"}

(* Program constants *)

OtpBase == 100000
OtpSpan == 900000
(* Math.floor(Math.random() * 900000): Math.random() is in [0, 1) *)
RandomDraws == {0, OtpSpan - 1}
OtpTtlMinutes == 15
SessionTtlMs == 3600000
TokenTtlSeconds == 3600
MsPerSecond == 1000
MsPerMinute == 60 * MsPerSecond
HalfSecondMs == MsPerSecond \div 2
SECRET == "YOUR_SECRET_KEY"

STANDARD == "STANDARD"
AGENT == "AGENT"
CORPORATE == "CORPORATE"
UserType == {STANDARD, AGENT, CORPORATE}
NoUserType == "undefined"

EMAIL_VERIFICATION == "EMAIL_VERIFICATION"
PASSWORD_RESET == "PASSWORD_RESET"

(* the kinds of one-time code the identity service issues *)
OtpTypes == {PASSWORD_RESET, EMAIL_VERIFICATION}

---------------------------------------------------------------------------
(* Errors the service rejects with *)

NoError == "none"
ErrInvalidCredentials == "UnauthorizedException: Invalid credentials"
ErrInvalidResetOtp == "UnauthorizedException: Invalid or expired token"
ErrInvalidEmailOtp == "UnauthorizedException: Invalid or expired verification token"
ErrRefresh == "UnauthorizedException: Invalid or expired token"
ErrInvalidToken == "UnauthorizedException: Invalid token"
ErrUnique == "PrismaClientKnownRequestError: P2002 Unique constraint failed"
ErrStorage == "PrismaClientUnknownRequestError"
ErrJwtMalformed == "JsonWebTokenError: invalid signature"
ErrJwtExpired == "TokenExpiredError: jwt expired"

---------------------------------------------------------------------------
(* bcrypt *)

Hash(plaintext) == <<"$2b$10$", plaintext>>

Compare(plaintext, digest) == digest = Hash(plaintext)

---------------------------------------------------------------------------
(* jsonwebtoken *)

NowSeconds == now \div MsPerSecond

JwtSign(userId, secret) ==
    [userId |-> userId, iat |-> NowSeconds,
     exp |-> NowSeconds + TokenTtlSeconds, sig |-> secret]

NoToken == [userId |-> 0, iat |-> 0, exp |-> 0, sig |-> "none"]

ForgedToken == [userId |-> 1, iat |-> 0, exp |-> TokenTtlSeconds, sig |-> "forged"]

JwtVerifyError(token, secret) ==
    IF token.sig # secret THEN ErrJwtMalformed
    ELSE IF NowSeconds >= token.exp THEN ErrJwtExpired
    ELSE NoError

JwtVerify(token, secret) == JwtVerifyError(token, secret) = NoError

---------------------------------------------------------------------------
(* Rows and queries *)

DetailsUserType(details) ==
    IF "userType" \in DOMAIN details THEN details.userType ELSE NoUserType

UserRow(id, details, hashedPassword) ==
    [id |-> id, email |-> details.email, password |-> hashedPassword,
     userType |-> DetailsUserType(details), isVerified |-> FALSE]

ProfileRow(userId, details) ==
    [userId |-> userId, data |-> DOMAIN details]

OtpRow(id, userId, code, type) ==
    [id |-> id, userId |-> userId, code |-> code, type |-> type,
     expiresAt |-> now + OtpTtlMinutes * MsPerMinute,
     verified |-> FALSE, createdAt |-> now]

SessionRow_Seconds(token) ==
    [token |-> token, expiresAt |-> now + TokenTtlSeconds]

SessionRow(token) == [token |-> token, expiresAt |-> now + SessionTtlMs]

OtpCodeOf_NoBase(draw) == ToString(draw)

OtpCodeOf(draw) == ToString(OtpBase + draw)

Codes == {OtpCodeOf(d) : d \in RandomDraws}

UsersByEmail(email) == {u \in users : u.email = email}

UsersById(id) == {u \in users : u.id = id}

SessionsByToken(token) == {s \in sessions : s.token = token}

(* userDetails as the controller passes it on: RegisterDto carries no     *)
(* userType; other callers of register may set one                        *)
PlainDetails == [email : Emails, password : RegisterPasswords]

RoleDetails ==
    [email : Emails, password : RegisterPasswords, userType : UserType]

RegisterDetails == PlainDetails \cup RoleDetails

(* rows written inside register transactions that are not committed yet *)
TxOtps == UNION {reg[p].tx.otps : p \in Procs}

FreshOtpId ==
    CHOOSE i \in 1..(Cardinality(otpCodes \cup TxOtps) + 1) :
        /\ i \notin {o.id : o \in otpCodes \cup TxOtps}
        /\ \A j \in 1..(i - 1) : j \in {o.id : o \in otpCodes \cup TxOtps}

OtpRoom == Cardinality(otpCodes \cup TxOtps) < MaxOtps

(* room for the row requestPasswordReset adds for a user's email *)
ResetRoom(email, room) ==
    UsersByEmail(email) # {} => Cardinality(otpCodes \cup TxOtps) < room

---------------------------------------------------------------------------
(* The outcome of a call, as the caller sees it *)

NoCall ==
    [op |-> "none", ok |-> TRUE, err |-> NoError, value |-> NoToken,
     email |-> "", code |-> "", token |-> NoToken,
     otpId |-> 0, userId |-> 0, ret |-> FALSE, info |-> "none",
     storeFailed |-> FALSE, type |-> "none"]

Resolve(call, value) == [call EXCEPT !.ok = TRUE, !.err = NoError, !.value = value]

Reject(call, err) == [call EXCEPT !.ok = FALSE, !.err = err]

---------------------------------------------------------------------------
(* generateToken: jwt.sign, then session.create on the shared client.    *)
(* sessions_token_key rejects a token that already has a row.            *)

GenerateTokenError(userId) ==
    IF SessionsByToken(JwtSign(userId, SECRET)) # {} THEN ErrUnique ELSE NoError

GenerateTokenSessions(userId) ==
    IF GenerateTokenError(userId) = NoError
    THEN sessions \cup {SessionRow(JwtSign(userId, SECRET))}
    ELSE sessions

IssueRoom(userId) ==
    \/ JwtSign(userId, SECRET) \in issued
    \/ Cardinality(issued) < MaxIssued

---------------------------------------------------------------------------
(* register, inside db.$transaction(async (prisma) => ...)               *)

WriteClient_Shared(statement) == "db"

(* the client each statement of register is issued on: "prisma" is the   *)
(* transaction, "db" the shared client, whose writes commit at once      *)
WriteClient(statement) ==
    IF statement = "session.create" THEN "db" ELSE "prisma"

Committed(table, statement, rows) ==
    IF WriteClient(statement) = "db" THEN table \cup rows ELSE table

Pending(pending, statement, rows) ==
    IF WriteClient(statement) = "prisma" THEN pending \cup rows ELSE pending

ProfileRows_Always(userId, details, userType) == {ProfileRow(userId, details)}

ProfileRows(userId, details, userType) ==
    IF DetailsUserType(details) = userType
    THEN {ProfileRow(userId, details)}
    ELSE {}

EmptyTx ==
    [users |-> {}, agents |-> {}, corporateUsers |-> {}, otps |-> {},
     sessions |-> {}]

IdleReg ==
    [pc |-> "idle", details |-> [email |-> "", password |-> ""],
     hashedPassword |-> Hash(""), userId |-> 0, tx |-> EmptyTx,
     token |-> NoToken, ok |-> FALSE, err |-> NoError, emailFree |-> FALSE,
     storeFailed |-> FALSE]

RegCall(p) ==
    [NoCall EXCEPT !.op = "register", !.email = reg[p].details.email,
                   !.userId = reg[p].userId]

RegisterThrows_Generic(err) == ErrStorage

(* the callback threw: the transaction ends without commit and the rows  *)
(* written through it are discarded; the catch rethrows the error as is  *)
RegisterThrows(err) == err

(* the call has returned: what is left of it is what its caller holds *)
Returned(p, ok, err) ==
    [IdleReg EXCEPT !.pc = "done",
                    !.details = [email |-> reg[p].details.email,
                                 password |-> ""],
                    !.userId = reg[p].userId,
                    !.emailFree = reg[p].emailFree,
                    !.ok = ok, !.err = err]

RegRollback(p, err) ==
    /\ reg' = [reg EXCEPT ![p] =
                 [Returned(p, FALSE, RegisterThrows(err))
                    EXCEPT !.storeFailed = (err = ErrStorage)]]
    /\ last' = [Reject(RegCall(p), RegisterThrows(err))
                  EXCEPT !.storeFailed = (err = ErrStorage)]

RegisterBegin(p, details) ==
    /\ reg[p].pc = "idle"
    /\ reg' = [reg EXCEPT ![p] =
                 [IdleReg EXCEPT !.pc = "createUser", !.details = details,
                                 !.hashedPassword = Hash(details.password),
                                 !.emailFree = (UsersByEmail(details.email) = {})]]
    /\ UNCHANGED <<db, now, calls, nextUserId, issued, consumed, last>>

(* users_email_key: an INSERT waits while another open transaction holds *)
(* a row with the same email                                             *)
EmailLockedByOther(p, email) ==
    \E q \in Procs \ {p} : \E u \in reg[q].tx.users : u.email = email

RegCreateUser(p) ==
    LET newUser == UserRow(nextUserId + 1, reg[p].details,
                           reg[p].hashedPassword)
    IN  /\ reg[p].pc = "createUser"
        /\ ~EmailLockedByOther(p, reg[p].details.email)
        /\ IF UsersByEmail(reg[p].details.email) # {}
           THEN /\ RegRollback(p, ErrUnique)
                /\ UNCHANGED <<users, nextUserId>>
           ELSE /\ nextUserId < MaxUserIds
                /\ nextUserId' = nextUserId + 1
                /\ users' = Committed(users, "user.create", {newUser})
                /\ reg' = [reg EXCEPT
                     ![p].pc = "createProfile",
                     ![p].userId = newUser.id,
                     ![p].tx.users = Pending({}, "user.create", {newUser})]
                /\ UNCHANGED last
        /\ UNCHANGED <<agents, corporateUsers, otpCodes, sessions, now, calls,
                       issued, consumed>>

RegCreateProfile(p) ==
    LET agentRows == ProfileRows(reg[p].userId, reg[p].details, AGENT)
        corporateRows == ProfileRows(reg[p].userId, reg[p].details, CORPORATE)
    IN  /\ reg[p].pc = "createProfile"
        /\ agents' = Committed(agents, "agent.create", agentRows)
        /\ corporateUsers' =
               Committed(corporateUsers, "corporateUser.create", corporateRows)
        /\ reg' = [reg EXCEPT
             ![p].pc = "createOtp",
             ![p].tx.agents = Pending({}, "agent.create", agentRows),
             ![p].tx.corporateUsers =
                 Pending({}, "corporateUser.create", corporateRows)]
        /\ UNCHANGED <<users, otpCodes, sessions, now, calls, nextUserId,
                       issued, consumed, last>>

RegCreateOtp(p, draw) ==
    LET otp == OtpRow(FreshOtpId, reg[p].userId, OtpCodeOf(draw),
                      EMAIL_VERIFICATION)
    IN  /\ reg[p].pc = "createOtp"
        /\ OtpRoom
        /\ otpCodes' = Committed(otpCodes, "otpCode.create", {otp})
        /\ reg' = [reg EXCEPT
             ![p].pc = "generateToken",
             ![p].tx.otps = Pending({}, "otpCode.create", {otp})]
        /\ UNCHANGED <<users, agents, corporateUsers, sessions, now, calls,
                       nextUserId, issued, consumed, last>>

RegGenerateToken(p) ==
    LET token == JwtSign(reg[p].userId, SECRET)
    IN  /\ reg[p].pc = "generateToken"
        /\ IssueRoom(reg[p].userId)
        /\ IF GenerateTokenError(reg[p].userId) = NoError
           THEN /\ sessions' = Committed(sessions, "session.create",
                                         {SessionRow(token)})
                /\ reg' = [reg EXCEPT
                     ![p].pc = "commit", ![p].token = token,
                     ![p].tx.sessions =
                         Pending({}, "session.create", {SessionRow(token)})]
                /\ issued' = issued \cup {token}
                /\ UNCHANGED last
           ELSE /\ RegRollback(p, GenerateTokenError(reg[p].userId))
                /\ UNCHANGED <<sessions, issued>>
        /\ UNCHANGED <<users, agents, corporateUsers, otpCodes, now, calls,
                       nextUserId, consumed>>

RegCommit(p) ==
    /\ reg[p].pc = "commit"
    /\ users' = users \cup reg[p].tx.users
    /\ agents' = agents \cup reg[p].tx.agents
    /\ corporateUsers' = corporateUsers \cup reg[p].tx.corporateUsers
    /\ otpCodes' = otpCodes \cup reg[p].tx.otps
    /\ sessions' = sessions \cup reg[p].tx.sessions
    /\ reg' = [reg EXCEPT ![p] = Returned(p, TRUE, NoError)]
    /\ last' = Resolve(RegCall(p), reg[p].token)
    /\ UNCHANGED <<now, calls, nextUserId, issued, consumed>>

(* any statement of the transaction, or its commit, may fail in the store *)
RegStorageError(p) ==
    /\ reg[p].pc \in {"createUser", "createProfile", "createOtp",
                     "generateToken", "commit"}
    /\ RegRollback(p, ErrStorage)
    /\ UNCHANGED <<db, now, calls, nextUserId, issued, consumed>>

RegisterReturn(p) ==
    /\ reg[p].pc = "done"
    /\ reg' = [reg EXCEPT ![p] = IdleReg]
    /\ UNCHANGED <<db, now, calls, nextUserId, issued, consumed, last>>

---------------------------------------------------------------------------
(* register as one request at a time sees it: the transaction of         *)
(* RegisterBegin .. RegCommit run to its end with no other request in     *)
(* between                                                                *)

RegisterError(details) ==
    IF UsersByEmail(details.email) # {} THEN ErrUnique
    ELSE GenerateTokenError(nextUserId + 1)

RegisterCall(details) ==
    [NoCall EXCEPT !.op = "register", !.email = details.email]

RegisterTx(details, draw) ==
    LET newUser == UserRow(nextUserId + 1, details, Hash(details.password))
    IN  IF RegisterError(details) = NoError
        THEN /\ nextUserId < MaxUserIds
             /\ OtpRoom
             /\ IssueRoom(newUser.id)
             /\ nextUserId' = nextUserId + 1
             /\ users' = users \cup {newUser}
             /\ agents' = agents \cup ProfileRows(newUser.id, details, AGENT)
             /\ corporateUsers' = corporateUsers \cup
                    ProfileRows(newUser.id, details, CORPORATE)
             /\ otpCodes' = otpCodes \cup
                    {OtpRow(FreshOtpId, newUser.id, OtpCodeOf(draw),
                            EMAIL_VERIFICATION)}
             /\ sessions' = GenerateTokenSessions(newUser.id)
             /\ issued' = issued \cup {JwtSign(newUser.id, SECRET)}
             /\ last' = Resolve([RegisterCall(details) EXCEPT
                                    !.userId = newUser.id],
                                JwtSign(newUser.id, SECRET))
             /\ UNCHANGED <<now, calls, reg, consumed>>
        ELSE /\ last' = Reject(RegisterCall(details),
                               RegisterThrows(RegisterError(details)))
             /\ UNCHANGED <<db, now, calls, nextUserId, reg, issued,
                            consumed>>

---------------------------------------------------------------------------
(* login *)

LoginUser(email) == CHOOSE u \in UsersByEmail(email) : TRUE

LoginError_Enumerates(email, password) ==
    IF UsersByEmail(email) = {} THEN "NotFoundException: User not found"
    ELSE IF ~Compare(password, LoginUser(email).password)
         THEN ErrInvalidCredentials
    ELSE GenerateTokenError(LoginUser(email).id)

LoginError(email, password) ==
    IF UsersByEmail(email) = {} THEN ErrInvalidCredentials
    ELSE IF ~Compare(password, LoginUser(email).password)
         THEN ErrInvalidCredentials
    ELSE GenerateTokenError(LoginUser(email).id)

LoginCall(email, password) ==
    [NoCall EXCEPT !.op = "login", !.email = email]

Login(email, password) ==
    /\ IF LoginError(email, password) = NoError
       THEN /\ IssueRoom(LoginUser(email).id)
            /\ sessions' = GenerateTokenSessions(LoginUser(email).id)
            /\ issued' = issued \cup {JwtSign(LoginUser(email).id, SECRET)}
            /\ last' = Resolve([LoginCall(email, password) EXCEPT
                                   !.userId = LoginUser(email).id],
                               JwtSign(LoginUser(email).id, SECRET))
       ELSE /\ last' = Reject(LoginCall(email, password),
                              LoginError(email, password))
            /\ UNCHANGED <<sessions, issued>>
    /\ UNCHANGED <<users, agents, corporateUsers, otpCodes, now, calls,
                   nextUserId, reg, consumed>>

---------------------------------------------------------------------------
(* logout: session.delete by token; a failed delete is logged and dropped *)

TokenInputs == issued \cup {ForgedToken}

LogoutSessions(token) == sessions \ SessionsByToken(token)

LogoutError_Rethrows(token) ==
    IF SessionsByToken(token) = {}
    THEN "PrismaClientKnownRequestError: P2025 Record to delete does not exist"
    ELSE NoError

LogoutError(token) == NoError

Logout(token) ==
    /\ sessions' = LogoutSessions(token)
    /\ last' = IF LogoutError(token) = NoError
               THEN Resolve([NoCall EXCEPT !.op = "logout", !.token = token],
                            NoToken)
               ELSE Reject([NoCall EXCEPT !.op = "logout", !.token = token],
                           LogoutError(token))
    /\ UNCHANGED <<users, agents, corporateUsers, otpCodes, now, calls,
                   nextUserId, reg, issued, consumed>>

---------------------------------------------------------------------------
(* validateToken and refreshToken *)

ValidateTokenResult_Session(token) ==
    JwtVerify(token, SECRET) /\ SessionsByToken(token) # {}

ValidateTokenResult(token) == JwtVerify(token, SECRET)

ValidateToken(token) ==
    /\ last' = [Resolve([NoCall EXCEPT !.op = "validateToken",
                                       !.token = token], NoToken)
                  EXCEPT !.ret = ValidateTokenResult(token)]
    /\ UNCHANGED <<db, now, calls, nextUserId, reg, issued, consumed>>

(* the promise of generateToken is returned without await, so its        *)
(* rejection reaches the caller as it is                                 *)
RefreshTokenError(token) ==
    IF ~JwtVerify(token, SECRET) THEN ErrRefresh
    ELSE GenerateTokenError(token.userId)

RefreshToken(token) ==
    /\ IF RefreshTokenError(token) = NoError
       THEN /\ IssueRoom(token.userId)
            /\ sessions' = GenerateTokenSessions(token.userId)
            /\ issued' = issued \cup {JwtSign(token.userId, SECRET)}
            /\ last' = Resolve([NoCall EXCEPT !.op = "refreshToken",
                                   !.token = token, !.userId = token.userId],
                               JwtSign(token.userId, SECRET))
       ELSE /\ last' = Reject([NoCall EXCEPT !.op = "refreshToken",
                                  !.token = token], RefreshTokenError(token))
            /\ UNCHANGED <<sessions, issued>>
    /\ UNCHANGED <<users, agents, corporateUsers, otpCodes, now, calls,
                   nextUserId, reg, consumed>>

---------------------------------------------------------------------------
(* getUserInfo *)

GetUserInfoError(token) ==
    IF ~JwtVerify(token, SECRET) THEN ErrInvalidToken ELSE NoError

GetUserInfoResult_AgentFirst(token) ==
    IF UsersById(token.userId) = {} THEN "null"
    ELSE IF \E a \in agents : a.userId = token.userId THEN "agentProfile"
    ELSE IF \E c \in corporateUsers : c.userId = token.userId
         THEN "corporateProfile"
    ELSE "user"

GetUserInfoResult(token) ==
    IF UsersById(token.userId) = {} THEN "null"
    ELSE IF \E c \in corporateUsers : c.userId = token.userId
         THEN "corporateProfile"
    ELSE IF \E a \in agents : a.userId = token.userId THEN "agentProfile"
    ELSE "user"

GetUserInfo(token) ==
    /\ last' = IF GetUserInfoError(token) = NoError
               THEN [Resolve([NoCall EXCEPT !.op = "getUserInfo",
                                 !.token = token, !.userId = token.userId],
                             NoToken)
                       EXCEPT !.info = GetUserInfoResult(token)]
               ELSE Reject([NoCall EXCEPT !.op = "getUserInfo",
                               !.token = token], GetUserInfoError(token))
    /\ UNCHANGED <<db, now, calls, nextUserId, reg, issued, consumed>>

---------------------------------------------------------------------------
(* changePassword *)

ChangePasswordError(token, oldPassword) ==
    IF ~JwtVerify(token, SECRET) THEN JwtVerifyError(token, SECRET)
    ELSE IF UsersById(token.userId) = {} THEN ErrInvalidCredentials
    ELSE IF \E u \in UsersById(token.userId) :
                ~Compare(oldPassword, u.password)
         THEN ErrInvalidCredentials
    ELSE NoError

UpdatePassword(userId, hashedPassword) ==
    {IF u.id = userId THEN [u EXCEPT !.password = hashedPassword] ELSE u :
        u \in users}

ChangePassword(token, oldPassword, newPassword) ==
    /\ IF ChangePasswordError(token, oldPassword) = NoError
       THEN /\ users' = UpdatePassword(token.userId, Hash(newPassword))
            /\ last' = Resolve([NoCall EXCEPT !.op = "changePassword",
                                   !.token = token, !.userId = token.userId],
                               NoToken)
       ELSE /\ last' = Reject([NoCall EXCEPT !.op = "changePassword",
                                  !.token = token],
                              ChangePasswordError(token, oldPassword))
            /\ UNCHANGED users
    /\ UNCHANGED <<agents, corporateUsers, otpCodes, sessions, now, calls,
                   nextUserId, reg, issued, consumed>>


---------------------------------------------------------------------------
(* requestPasswordReset *)

RequestPasswordResetRows_Always(email, draw) ==
    IF UsersByEmail(email) = {}
    THEN {OtpRow(FreshOtpId, 0, OtpCodeOf(draw), PASSWORD_RESET)}
    ELSE {OtpRow(FreshOtpId, u.id, OtpCodeOf(draw), PASSWORD_RESET) :
             u \in UsersByEmail(email)}

RequestPasswordResetRows(email, draw) ==
    IF UsersByEmail(email) = {} THEN {}
    ELSE {OtpRow(FreshOtpId, u.id, OtpCodeOf(draw), PASSWORD_RESET) :
             u \in UsersByEmail(email)}

RequestPasswordReset(email, draw) ==
    /\ otpCodes' = otpCodes \cup RequestPasswordResetRows(email, draw)
    /\ last' = Resolve([NoCall EXCEPT !.op = "requestPasswordReset",
                           !.email = email,
                           !.code = IF UsersByEmail(email) = {} THEN ""
                                    ELSE OtpCodeOf(draw)], NoToken)
    /\ UNCHANGED <<users, agents, corporateUsers, sessions, now, calls,
                   nextUserId, reg, issued, consumed>>

---------------------------------------------------------------------------
(* verifyPasswordReset and verifyEmail *)

FindFirstOtp_AtExpiry(code, type) ==
    {o \in otpCodes : /\ o.code = code
                      /\ o.type = type
                      /\ o.expiresAt >= now
                      /\ o.verified = FALSE}

FindFirstOtp_AnyType(code, type) ==
    {o \in otpCodes : /\ o.code = code
                      /\ o.expiresAt > now
                      /\ o.verified = FALSE}

(* otpCode.findFirst({ where: { code, type, expiresAt: { gt: new Date() }, *)
(* verified: false } }): no orderBy, so any row that qualifies may be the  *)
(* one returned                                                            *)
FindFirstOtp(code, type) ==
    {o \in otpCodes : /\ o.code = code
                      /\ o.type = type
                      /\ o.expiresAt > now
                      /\ o.verified = FALSE}

MarkVerified_Toggle(otpId) ==
    {IF o.id = otpId THEN [o EXCEPT !.verified = ~o.verified] ELSE o :
        o \in otpCodes}

MarkVerified(otpId) ==
    {IF o.id = otpId THEN [o EXCEPT !.verified = TRUE] ELSE o : o \in otpCodes}

SetIsVerified(userId) ==
    {IF u.id = userId THEN [u EXCEPT !.isVerified = TRUE] ELSE u : u \in users}

VerifyPasswordResetCall(code, newPassword) ==
    [NoCall EXCEPT !.op = "verifyPasswordReset", !.code = code]

VerifyPasswordReset(code, newPassword) ==
    /\ IF FindFirstOtp(code, PASSWORD_RESET) = {}
       THEN /\ last' = Reject(VerifyPasswordResetCall(code, newPassword),
                              ErrInvalidResetOtp)
            /\ UNCHANGED <<users, otpCodes, consumed>>
       ELSE \E otpRecord \in FindFirstOtp(code, PASSWORD_RESET) :
            /\ users' = UpdatePassword(otpRecord.userId, Hash(newPassword))
            /\ otpCodes' = MarkVerified(otpRecord.id)
            /\ consumed' = consumed \cup {<<PASSWORD_RESET, code>>}
            /\ last' = Resolve([VerifyPasswordResetCall(code, newPassword)
                                  EXCEPT !.otpId = otpRecord.id,
                                         !.userId = otpRecord.userId],
                               NoToken)
    /\ UNCHANGED <<agents, corporateUsers, sessions, now, calls, nextUserId,
                   reg, issued>>

VerifyEmailCall(code) == [NoCall EXCEPT !.op = "verifyEmail", !.code = code]

VerifyEmail(code) ==
    /\ IF FindFirstOtp(code, EMAIL_VERIFICATION) = {}
       THEN /\ last' = Reject(VerifyEmailCall(code), ErrInvalidEmailOtp)
            /\ UNCHANGED <<users, otpCodes, consumed>>
       ELSE \E otpRecord \in FindFirstOtp(code, EMAIL_VERIFICATION) :
            /\ users' = SetIsVerified(otpRecord.userId)
            /\ otpCodes' = MarkVerified(otpRecord.id)
            /\ consumed' = consumed \cup {<<EMAIL_VERIFICATION, code>>}
            /\ last' = Resolve([VerifyEmailCall(code)
                                  EXCEPT !.otpId = otpRecord.id,
                                         !.userId = otpRecord.userId],
                               NoToken)
    /\ UNCHANGED <<agents, corporateUsers, sessions, now, calls, nextUserId,
                   reg, issued>>

---------------------------------------------------------------------------
(* verifyPasswordReset and verifyEmail statement by statement, one        *)
(* request per element of Procs: findFirst, user.update and               *)
(* otpCode.update are three auto-committed statements on the shared       *)
(* client, with no transaction around them                                *)

NoOtp ==
    [id |-> 0, userId |-> 0, code |-> "", type |-> "none", expiresAt |-> 0,
     verified |-> FALSE, createdAt |-> 0]

IdleCall ==
    [op |-> "none", pc |-> "idle", code |-> "", newPassword |-> "",
     otp |-> NoOtp, id |-> 0, userUpdated |-> FALSE, removed |-> FALSE,
     ok |-> FALSE, err |-> NoError, ret |-> FALSE]

VerifyOps == {"verifyPasswordReset", "verifyEmail"}

VerifyType(op) ==
    IF op = "verifyEmail" THEN EMAIL_VERIFICATION ELSE PASSWORD_RESET

VerifyError(op) ==
    IF op = "verifyEmail" THEN ErrInvalidEmailOtp ELSE ErrInvalidResetOtp

VerifyCall(p) ==
    [NoCall EXCEPT !.op = calls[p].op, !.code = calls[p].code,
                   !.otpId = calls[p].otp.id, !.userId = calls[p].otp.userId]

(* the call ends: its catch rethrows what was thrown *)
VerifyEnd(p, ok, err) ==
    /\ calls' = [calls EXCEPT ![p].pc = "done", ![p].ok = ok, ![p].err = err]
    /\ last' = IF ok THEN Resolve(VerifyCall(p), NoToken)
               ELSE [Reject(VerifyCall(p), err)
                       EXCEPT !.storeFailed = (err = ErrStorage)]

VerifyFind(p, op, code, newPassword) ==
    /\ calls[p].pc = "idle"
    /\ IF FindFirstOtp(code, VerifyType(op)) = {}
       THEN /\ calls' = [calls EXCEPT ![p] =
                           [IdleCall EXCEPT !.op = op, !.code = code,
                                            !.pc = "done",
                                            !.err = VerifyError(op)]]
            /\ last' = Reject([NoCall EXCEPT !.op = op, !.code = code],
                              VerifyError(op))
       ELSE /\ \E otpRecord \in FindFirstOtp(code, VerifyType(op)) :
                   calls' = [calls EXCEPT ![p] =
                               [IdleCall EXCEPT !.op = op, !.code = code,
                                                !.newPassword = newPassword,
                                                !.otp = otpRecord,
                                                !.pc = "updateUser"]]
            /\ UNCHANGED last
    /\ UNCHANGED <<db, now, nextUserId, reg, issued, consumed>>

VerifyUpdateUser(p) ==
    /\ calls[p].pc = "updateUser"
    /\ users' = IF calls[p].op = "verifyEmail"
                THEN SetIsVerified(calls[p].otp.userId)
                ELSE UpdatePassword(calls[p].otp.userId,
                                    Hash(calls[p].newPassword))
    /\ calls' = [calls EXCEPT ![p].pc = "updateOtp", ![p].userUpdated = TRUE]
    /\ UNCHANGED <<agents, corporateUsers, otpCodes, sessions, now,
                   nextUserId, reg, issued, consumed, last>>

VerifyUpdateOtp(p) ==
    /\ calls[p].pc = "updateOtp"
    /\ otpCodes' = MarkVerified(calls[p].otp.id)
    /\ consumed' = consumed \cup {<<VerifyType(calls[p].op), calls[p].code>>}
    /\ VerifyEnd(p, TRUE, NoError)
    /\ UNCHANGED <<users, agents, corporateUsers, sessions, now, nextUserId,
                   reg, issued>>

(* user.update or otpCode.update may fail in the store *)
VerifyStorageError(p) ==
    /\ calls[p].op \in VerifyOps
    /\ calls[p].pc \in {"updateUser", "updateOtp"}
    /\ VerifyEnd(p, FALSE, ErrStorage)
    /\ UNCHANGED <<db, now, nextUserId, reg, issued, consumed>>

CallReturn(p) ==
    /\ calls[p].pc = "done"
    /\ calls' = [calls EXCEPT ![p] = IdleCall]
    /\ UNCHANGED <<db, now, nextUserId, reg, issued, consumed, last>>

(* the statements of one verify request *)
Verify(p, newPasswords) ==
    \/ \E op \in VerifyOps, code \in Codes, newPassword \in newPasswords :
           VerifyFind(p, op, code, newPassword)
    \/ VerifyUpdateUser(p)
    \/ VerifyUpdateOtp(p)
    \/ VerifyStorageError(p)
    \/ CallReturn(p)

---------------------------------------------------------------------------
(* OtpService.markAsVerified: otpCode.update({ where: { id }, data: {     *)
(* verified: true } }); update throws when no row has the id, and the     *)
(* catch rethrows                                                         *)

ErrNotFound == "PrismaClientKnownRequestError: P2025 Record to update not found"

OtpIds == 1..(MaxOtps + 1)

MarkAsVerifiedError(id) ==
    IF \E o \in otpCodes : o.id = id THEN NoError ELSE ErrNotFound

MarkAsVerified(id) ==
    LET call == [NoCall EXCEPT
                    !.op = "markAsVerified", !.otpId = id,
                    !.info = IF \E o \in otpCodes : o.id = id /\ o.verified
                             THEN "verified before" ELSE "none"]
    IN  /\ IF MarkAsVerifiedError(id) = NoError
           THEN /\ otpCodes' = MarkVerified(id)
                /\ last' = [Resolve(call, NoToken) EXCEPT !.ret = TRUE]
           ELSE /\ otpCodes' = otpCodes
                /\ last' = Reject(call, MarkAsVerifiedError(id))
        /\ UNCHANGED <<users, agents, corporateUsers, sessions, now, calls,
                       nextUserId, reg, issued, consumed>>

---------------------------------------------------------------------------
(* OtpService.findValidOtp: otpCode.findFirst({ where: { userId, type,    *)
(* code, expiresAt: { gt: new Date() }, verified: false } }); no orderBy, *)
(* so any row that qualifies may be the one returned, and null when none  *)
(* does                                                                   *)

FindValidOtpRows_AnyUser(userId, type, code) ==
    {o \in otpCodes : /\ o.type = type
                      /\ o.code = code
                      /\ o.expiresAt > now
                      /\ o.verified = FALSE}

FindValidOtpRows(userId, type, code) ==
    {o \in otpCodes : /\ o.userId = userId
                      /\ o.type = type
                      /\ o.code = code
                      /\ o.expiresAt > now
                      /\ o.verified = FALSE}

UserIds == 1..MaxUserIds

FindValidOtpCall(userId, type, code) ==
    [NoCall EXCEPT !.op = "findValidOtp", !.userId = userId, !.type = type,
                   !.code = code]

FindValidOtp(userId, type, code) ==
    /\ IF FindValidOtpRows(userId, type, code) = {}
       THEN last' = [Resolve(FindValidOtpCall(userId, type, code), NoToken)
                       EXCEPT !.info = "null"]
       ELSE \E otp \in FindValidOtpRows(userId, type, code) :
                last' = [Resolve(FindValidOtpCall(userId, type, code), NoToken)
                           EXCEPT !.info = "row", !.otpId = otp.id]
    /\ UNCHANGED <<db, now, calls, nextUserId, reg, issued, consumed>>

---------------------------------------------------------------------------
(* OtpService.updateById: findUnique, then otpCode.update({ where: { id   *)
(* }, data: { ...parseOtpData(properties) } }) with whatever fields the   *)
(* caller passes                                                          *)

ErrOtpNotFound == "Error: OTP with ID not found"

(* a JavaScript value of a request body: a boolean or a string *)
JsBoolean(b) == [type |-> "boolean", text |-> IF b THEN "true" ELSE "false"]

JsString(text) == [type |-> "string", text |-> text]

(* parseOtpData: a string for verified becomes the boolean                *)
(* (verified === 'true'); other values pass as they are                   *)
ParseOtpData(data) ==
    [f \in DOMAIN data |->
        IF f = "verified" /\ data[f].type = "string"
        THEN JsBoolean(data[f].text = "true")
        ELSE data[f]]

(* the row after update({ data }): the columns named in data are written *)
UpdatedOtp(o, data) ==
    [f \in DOMAIN o |->
        IF f \notin DOMAIN data THEN o[f]
        ELSE IF f = "verified" THEN data[f].text = "true"
        ELSE data[f]]

(* properties a caller may pass *)
OtpProperties ==
    {[verified |-> JsBoolean(FALSE)], [verified |-> JsString("false")],
     [verified |-> JsString("true")], [expiresAt |-> now + OtpTtlMinutes * MsPerMinute]}

UpdateByIdError(id) ==
    IF \E o \in otpCodes : o.id = id THEN NoError ELSE ErrOtpNotFound

UpdateById(id, properties) ==
    LET call == [NoCall EXCEPT !.op = "updateById", !.otpId = id]
    IN  /\ IF UpdateByIdError(id) = NoError
           THEN /\ otpCodes' =
                       {IF o.id = id
                        THEN UpdatedOtp(o, ParseOtpData(properties))
                        ELSE o : o \in otpCodes}
                /\ last' = Resolve(call, NoToken)
           ELSE /\ otpCodes' = otpCodes
                /\ last' = Reject(call, UpdateByIdError(id))
        /\ UNCHANGED <<users, agents, corporateUsers, sessions, now, calls,
                       nextUserId, reg, issued, consumed>>

---------------------------------------------------------------------------
(* deleteById of the CRUD services, statement by statement, one request   *)
(* per element of Procs; OtpService.deleteById over otp_codes stands for  *)
(* all of them, which have the same body: findUnique, return false when   *)
(* it finds nothing, else delete and return true.  delete throws when no  *)
(* row has the id, and the catch rethrows.                                *)

ErrDeleteNotFound ==
    "PrismaClientKnownRequestError: P2025 Record to delete does not exist"

DeleteCall(p) ==
    [NoCall EXCEPT !.op = "deleteById", !.otpId = calls[p].id]

DeleteEnd(p, ok, err, ret, removed) ==
    /\ calls' = [calls EXCEPT ![p].pc = "done", ![p].ok = ok, ![p].err = err,
                              ![p].ret = ret, ![p].removed = removed]
    /\ last' = IF ok THEN [Resolve(DeleteCall(p), NoToken) EXCEPT !.ret = ret]
               ELSE Reject(DeleteCall(p), err)

DeleteFind(p, id) ==
    /\ calls[p].pc = "idle"
    /\ IF \E o \in otpCodes : o.id = id
       THEN /\ \E existingOtp \in {o \in otpCodes : o.id = id} :
                   calls' = [calls EXCEPT ![p] =
                               [IdleCall EXCEPT !.op = "deleteById",
                                                !.id = id,
                                                !.otp = existingOtp,
                                                !.pc = "delete"]]
            /\ UNCHANGED last
       ELSE /\ calls' = [calls EXCEPT ![p] =
                           [IdleCall EXCEPT !.op = "deleteById", !.id = id,
                                            !.pc = "done", !.ok = TRUE]]
            /\ last' = [Resolve([NoCall EXCEPT !.op = "deleteById",
                                               !.otpId = id], NoToken)
                          EXCEPT !.ret = FALSE]
    /\ UNCHANGED <<db, now, nextUserId, reg, issued, consumed>>

DeleteDelete(p) ==
    /\ calls[p].pc = "delete"
    /\ IF \E o \in otpCodes : o.id = calls[p].id
       THEN /\ otpCodes' = {o \in otpCodes : o.id # calls[p].id}
            /\ DeleteEnd(p, TRUE, NoError, TRUE, TRUE)
       ELSE /\ otpCodes' = otpCodes
            /\ DeleteEnd(p, FALSE, ErrDeleteNotFound, FALSE, FALSE)
    /\ UNCHANGED <<users, agents, corporateUsers, sessions, now, nextUserId,
                   reg, issued, consumed>>

(* ids are UUIDs, which a new row never shares with a deleted one: rows   *)
(* are issued while no deleteById request holds the id of a row          *)
NoDeleteUnderWay == \A p \in Procs : calls[p].pc = "idle"

(* the statements of one deleteById request *)
DeleteById(p) ==
    \/ \E id \in OtpIds : DeleteFind(p, id)
    \/ DeleteDelete(p)
    \/ CallReturn(p)

---------------------------------------------------------------------------
(* AgentService.create: agent.create on the shared client with the        *)
(* properties of the caller; agents_userId_key allows one row per user    *)
(* and agents_userId_fkey only rows of a stored user                      *)

ErrForeignKey == "PrismaClientKnownRequestError: P2003 Foreign key constraint failed"

AgentProperties(userId) == [userId |-> userId, agentCode |-> "AG-1"]

AgentCreateError(userId) ==
    IF UsersById(userId) = {} THEN ErrForeignKey
    ELSE IF \E a \in agents : a.userId = userId THEN ErrUnique
    ELSE NoError

AgentCreate(userId) ==
    /\ agents' = IF AgentCreateError(userId) = NoError
                 THEN agents \cup {ProfileRow(userId, AgentProperties(userId))}
                 ELSE agents
    /\ last' = IF AgentCreateError(userId) = NoError
               THEN Resolve([NoCall EXCEPT !.op = "agent.create",
                                           !.userId = userId], NoToken)
               ELSE Reject([NoCall EXCEPT !.op = "agent.create",
                                          !.userId = userId],
                           AgentCreateError(userId))
    /\ UNCHANGED <<users, corporateUsers, otpCodes, sessions, now, calls,
                   nextUserId, reg, issued, consumed>>

---------------------------------------------------------------------------
(* The controllers: the status of the response to a request whose service *)
(* call had the outcome "call".  Nest answers a thrown HttpException with  *)
(* its status; each handler's catch decides which exception leaves it.    *)

HttpOk == 200
HttpCreated == 201
HttpBadRequest == 400
HttpUnauthorized == 401
HttpNotFound == 404
HttpInternalServerError == 500

(* the class of the exception an error of the service is an instance of *)
ExceptionClass(err) ==
    IF err \in {ErrInvalidCredentials, ErrInvalidResetOtp, ErrInvalidEmailOtp,
                ErrRefresh, ErrInvalidToken}
    THEN "UnauthorizedException"
    ELSE "Error"

(* POST auth/login: the catch replaces whatever was thrown in the try,    *)
(* the UnauthorizedException of the service and the handler's own one for *)
(* an empty token included                                                *)
LoginStatus(call) ==
    IF call.ok /\ call.value # NoToken THEN HttpOk
    ELSE HttpInternalServerError

(* POST auth/verify-password-reset: the catch lets a BadRequestException  *)
(* pass and replaces every other error                                    *)
VerifyPasswordResetStatus(call) ==
    IF call.ok THEN HttpOk
    ELSE IF ExceptionClass(call.err) = "BadRequestException"
         THEN HttpBadRequest
    ELSE HttpInternalServerError

(* POST otp-codes/validate: the NotFoundException for a null result is    *)
(* thrown inside the try, and the catch replaces it                       *)
FindValidOtpStatus(call) ==
    IF call.ok /\ call.info = "row" THEN HttpCreated
    ELSE HttpInternalServerError

---------------------------------------------------------------------------
(* A handler whose store call throws: what its try/catch makes of the     *)
(* error.  logout logs it and returns, getUserInfo replaces it, the       *)
(* others rethrow it (refreshToken returns the rejected promise of        *)
(* generateToken as it is).                                               *)

TokenOps == {"logout", "refreshToken", "getUserInfo", "changePassword"}

StoreOps ==
    TokenOps \cup {"login", "requestPasswordReset", "verifyPasswordReset",
                   "verifyEmail"}

StoreFailureError(op) ==
    CASE op = "logout" -> NoError
      [] op = "getUserInfo" -> ErrInvalidToken
      [] OTHER -> ErrStorage

(* jwt.verify comes before the store call and must have passed *)
StoreCallReached(op, token) ==
    op \in {"refreshToken", "getUserInfo", "changePassword"}
        => JwtVerify(token, SECRET)

StoreFailure(op, token) ==
    LET call == [NoCall EXCEPT !.op = op, !.storeFailed = TRUE,
                               !.token = IF op \in TokenOps THEN token
                                         ELSE NoToken]
    IN  /\ StoreCallReached(op, token)
        /\ last' = IF StoreFailureError(op) = NoError
                   THEN Resolve(call, NoToken)
                   ELSE Reject(call, StoreFailureError(op))
        /\ UNCHANGED <<db, now, calls, nextUserId, reg, issued, consumed>>

---------------------------------------------------------------------------
(* the clock *)

QuarterMs == OtpTtlMinutes * MsPerMinute

TickSteps == {HalfSecondMs, QuarterMs, SessionTtlMs}

TickRoom(step) ==
    CASE step = HalfSecondMs ->
             (now % QuarterMs) \div HalfSecondMs < MaxSubTicks
      [] step = QuarterMs ->
             (now % SessionTtlMs) \div QuarterMs < MaxQuarters
      [] OTHER -> now \div SessionTtlMs < MaxHours

Tick(step) ==
    /\ TickRoom(step)
    /\ now' = now + step
    /\ UNCHANGED <<db, nextUserId, reg, calls, issued, consumed, last>>

---------------------------------------------------------------------------
(* The service *)

Init ==
    /\ users = {}
    /\ agents = {}
    /\ corporateUsers = {}
    /\ otpCodes = {}
    /\ sessions = {}
    /\ now = 0
    /\ nextUserId = 0
    /\ reg = [p \in Procs |-> IdleReg]
    /\ calls = [p \in Procs |-> IdleCall]
    /\ issued = {}
    /\ consumed = {}
    /\ last = NoCall

(* the statements of one register request *)
Register(p, draws) ==
    \/ \E details \in RegisterDetails : RegisterBegin(p, details)
    \/ RegCreateUser(p)
    \/ RegCreateProfile(p)
    \/ \E draw \in draws : RegCreateOtp(p, draw)
    \/ RegGenerateToken(p)
    \/ RegCommit(p)
    \/ RegStorageError(p)
    \/ RegisterReturn(p)

(* Every handler, requests arriving in any order *)
Next ==
    \/ \E p \in Procs : Register(p, RandomDraws)
    \/ \E email \in Emails, password \in Passwords : Login(email, password)
    \/ \E token \in TokenInputs : Logout(token)
    \/ \E token \in TokenInputs : RefreshToken(token)
    \/ \E token \in TokenInputs : ValidateToken(token)
    \/ \E token \in TokenInputs : GetUserInfo(token)
    \/ \E token \in TokenInputs, oldPassword \in Passwords,
          newPassword \in Passwords :
            ChangePassword(token, oldPassword, newPassword)
    \/ \E email \in Emails, draw \in RandomDraws :
            ResetRoom(email, MaxOtps) /\ RequestPasswordReset(email, draw)
    \/ \E code \in Codes, newPassword \in Passwords :
            VerifyPasswordReset(code, newPassword)
    \/ \E code \in Codes : VerifyEmail(code)
    \/ \E step \in TickSteps : Tick(step)

Spec == Init /\ [][Next]_vars

(* Token and session flows, one request at a time *)
NextToken ==
    \/ \E details \in PlainDetails : RegisterTx(details, 0)
    \/ \E email \in Emails, password \in Passwords : Login(email, password)
    \/ \E token \in TokenInputs : Logout(token)
    \/ \E token \in TokenInputs : RefreshToken(token)
    \/ \E token \in TokenInputs : ValidateToken(token)
    \/ \E token \in TokenInputs : GetUserInfo(token)
    \/ \E step \in {HalfSecondMs, SessionTtlMs} : Tick(step)

SpecToken == Init /\ [][NextToken]_vars

(* One-time-code flows, one request at a time *)
NextOtp ==
    \/ \E details \in PlainDetails, draw \in RandomDraws :
            RegisterTx(details, draw)
    \/ \E email \in Emails, draw \in RandomDraws :
            ResetRoom(email, MaxOtps) /\ RequestPasswordReset(email, draw)
    \/ \E code \in Codes, newPassword \in Passwords :
            VerifyPasswordReset(code, newPassword)
    \/ \E code \in Codes : VerifyEmail(code)
    \/ \E step \in {QuarterMs} : Tick(step)

SpecOtp == Init /\ [][NextOtp]_vars

(* a token signed with the secret of the source for an id no user row   *)
(* has: ids start at 1                                                   *)
StrayToken == [userId |-> 0, iat |-> 0, exp |-> TokenTtlSeconds, sig |-> SECRET]

(* Profile lookups: registrations of every role, agent rows added by     *)
(* AgentService, and getUserInfo                                         *)
NextInfo ==
    \/ \E details \in RegisterDetails : RegisterTx(details, 0)
    \/ \E userId \in 0..nextUserId : AgentCreate(userId)
    \/ \E token \in TokenInputs \cup {StrayToken} : GetUserInfo(token)
    \/ \E step \in {SessionTtlMs} : Tick(step)

SpecInfo == Init /\ [][NextInfo]_vars

(* Operations that take a token, one request at a time *)
NextAccount ==
    \/ \E details \in PlainDetails : RegisterTx(details, 0)
    \/ \E token \in TokenInputs, oldPassword \in Passwords,
          newPassword \in Passwords :
            ChangePassword(token, oldPassword, newPassword)
    \/ \E token \in TokenInputs : RefreshToken(token)
    \/ \E token \in TokenInputs : GetUserInfo(token)
    \/ \E step \in {HalfSecondMs, SessionTtlMs} : Tick(step)

SpecAccount == Init /\ [][NextAccount]_vars

(* Sessions and lookups over a store whose calls may fail *)
NextFault ==
    \/ \E details \in PlainDetails : RegisterTx(details, 0)
    \/ \E email \in Emails, password \in Passwords : Login(email, password)
    \/ \E token \in TokenInputs : Logout(token)
    \/ \E token \in TokenInputs : GetUserInfo(token)
    \/ \E op \in StoreOps, token \in TokenInputs : StoreFailure(op, token)
    \/ \E step \in {SessionTtlMs} : Tick(step)

SpecFault == Init /\ [][NextFault]_vars

(* Issuing one-time codes: registrations and repeated reset requests *)
NextIssue ==
    \/ \E details \in PlainDetails, draw \in RandomDraws :
            RegisterTx(details, draw)
    \/ \E email \in Emails, draw \in RandomDraws :
            ResetRoom(email, MaxOtps + 1) /\ RequestPasswordReset(email, draw)
    \/ \E step \in {QuarterMs} : Tick(step)

SpecIssue == Init /\ [][NextIssue]_vars

(* OtpService over the rows the identity service issues *)
NextOtpService ==
    \/ \E details \in PlainDetails, draw \in RandomDraws :
            RegisterTx(details, draw)
    \/ \E email \in Emails, draw \in RandomDraws :
            ResetRoom(email, MaxOtps) /\ RequestPasswordReset(email, draw)
    \/ \E id \in OtpIds : MarkAsVerified(id)
    \/ \E userId \in UserIds, type \in OtpTypes, code \in Codes :
            FindValidOtp(userId, type, code)
    \/ \E step \in {QuarterMs} : Tick(step)

SpecOtpService == Init /\ [][NextOtpService]_vars

(* Several rows that qualify for one lookup: codes issued with the same  *)
(* draw half a second apart, and the three lookups                       *)
NextRecent ==
    \/ \E details \in PlainDetails : RegisterTx(details, 0)
    \/ \E email \in Emails :
            ResetRoom(email, MaxOtps + 1) /\ RequestPasswordReset(email, 0)
    \/ \E code \in Codes, newPassword \in RegisterPasswords :
            VerifyPasswordReset(code, newPassword)
    \/ \E code \in Codes : VerifyEmail(code)
    \/ \E userId \in UserIds, type \in OtpTypes, code \in Codes :
            FindValidOtp(userId, type, code)
    \/ \E step \in {HalfSecondMs} : Tick(step)

SpecRecent == Init /\ [][NextRecent]_vars

(* Requests answered through the controllers *)
NextHttp ==
    \/ \E details \in PlainDetails : RegisterTx(details, 0)
    \/ \E email \in Emails, password \in Passwords : Login(email, password)
    \/ \E email \in Emails :
            ResetRoom(email, MaxOtps) /\ RequestPasswordReset(email, 0)
    \/ \E code \in Codes, newPassword \in Passwords :
            VerifyPasswordReset(code, newPassword)
    \/ \E userId \in UserIds, type \in OtpTypes, code \in Codes :
            FindValidOtp(userId, type, code)
    \/ \E step \in {QuarterMs} : Tick(step)

SpecHttp == Init /\ [][NextHttp]_vars

(* Every operation that writes otp_codes, one request at a time *)
NextOtpWrites ==
    \/ \E details \in PlainDetails : RegisterTx(details, 0)
    \/ \E email \in Emails :
            ResetRoom(email, MaxOtps) /\ RequestPasswordReset(email, 0)
    \/ \E code \in Codes, newPassword \in RegisterPasswords :
            VerifyPasswordReset(code, newPassword)
    \/ \E code \in Codes : VerifyEmail(code)
    \/ \E id \in OtpIds : MarkAsVerified(id)
    \/ \E id \in OtpIds, properties \in OtpProperties :
            UpdateById(id, properties)
    \/ \E step \in {QuarterMs} : Tick(step)

SpecOtpWrites == Init /\ [][NextOtpWrites]_vars

(* Concurrent deleteById requests over the rows the identity service     *)
(* issues                                                                *)
NextDelete ==
    \/ \E details \in PlainDetails : NoDeleteUnderWay /\ RegisterTx(details, 0)
    \/ \E email \in Emails :
            /\ NoDeleteUnderWay
            /\ ResetRoom(email, MaxOtps)
            /\ RequestPasswordReset(email, 0)
    \/ \E p \in Procs : DeleteById(p)

SpecDelete == Init /\ [][NextDelete]_vars

(* Concurrent verify requests over a store that may fail *)
NextVerify ==
    \/ \E details \in PlainDetails : RegisterTx(details, 0)
    \/ \E email \in Emails :
            ResetRoom(email, MaxOtps) /\ RequestPasswordReset(email, 0)
    \/ \E p \in Procs : Verify(p, {"newpass1"})
    \/ \E step \in {QuarterMs} : Tick(step)

SpecVerify == Init /\ [][NextVerify]_vars

(* Concurrent registrations over a store that may fail *)
NextReg == \E p \in Procs : Register(p, {0})

SpecReg == Init /\ [][NextReg]_vars

---------------------------------------------------------------------------
(* Properties of the one-time-code flows, checked under SpecOtp *)

VerifyErr(type) ==
    IF type = PASSWORD_RESET THEN ErrInvalidResetOtp ELSE ErrInvalidEmailOtp

(* a call of verifyPasswordReset (PASSWORD_RESET) or verifyEmail          *)
(* (EMAIL_VERIFICATION) with this code is the step being taken            *)
VerifyStep(code, type) ==
    IF type = PASSWORD_RESET
    THEN \E newPassword \in Passwords : VerifyPasswordReset(code, newPassword)
    ELSE VerifyEmail(code)

(* C1: once verifyPasswordReset or verifyEmail has succeeded with a code, *)
(* every later call of the same operation with that code is rejected as   *)
(* an invalid or expired code.                                            *)
C1_CodeSucceedsAtMostOnce ==
    [][\A code \in Codes, type \in OtpTypes :
          (<<type, code>> \in consumed /\ VerifyStep(code, type))
              => (~last'.ok /\ last'.err = VerifyErr(type))]_vars

(* every row of the kind that carries the code has expired *)
CodeExpired(code, type) ==
    /\ \E o \in otpCodes : o.code = code /\ o.type = type /\ ~o.verified
    /\ \A o \in otpCodes :
           (o.code = code /\ o.type = type) => o.expiresAt <= now

(* C4: verifyPasswordReset and verifyEmail reject a code whose row has    *)
(* expiresAt <= now although code and kind match and the row is           *)
(* unverified, and leave the users and otp_codes tables as they were; a   *)
(* row they do consume is one with expiresAt > now.                       *)
C4_ExpiredCodeRejected ==
    [][\A code \in Codes, type \in OtpTypes :
          VerifyStep(code, type) =>
              /\ CodeExpired(code, type) =>
                     /\ ~last'.ok
                     /\ last'.err = VerifyErr(type)
                     /\ users' = users
                     /\ otpCodes' = otpCodes
              /\ \A o \in otpCodes :
                     (o.expiresAt <= now) => o \in otpCodes']_vars

(* a verify call was rejected for a code whose unverified row of the      *)
(* kind expires at this very instant                                      *)
C4_Witness ==
    /\ last.op \in {"verifyPasswordReset", "verifyEmail"}
    /\ ~last.ok
    /\ \E o \in otpCodes :
           /\ o.code = last.code
           /\ o.type = (IF last.op = "verifyEmail" THEN EMAIL_VERIFICATION
                        ELSE PASSWORD_RESET)
           /\ ~o.verified
           /\ o.expiresAt = now

(* C7: requestPasswordReset resolves; for an email of no user it leaves   *)
(* otp_codes unchanged, and for a user's email it adds exactly one        *)
(* PASSWORD_RESET row, owned by that user; no other table changes.        *)
C7_RequestPasswordResetFrame ==
    [][\A email \in Emails, draw \in RandomDraws :
          RequestPasswordReset(email, draw) =>
              /\ last'.ok
              /\ UNCHANGED <<users, agents, corporateUsers, sessions>>
              /\ IF UsersByEmail(email) = {}
                 THEN otpCodes' = otpCodes
                 ELSE \E o \in otpCodes' \ otpCodes :
                          /\ otpCodes' = otpCodes \cup {o}
                          /\ o.type = PASSWORD_RESET
                          /\ o.code = OtpCodeOf(draw)
                          /\ ~o.verified
                          /\ \E u \in UsersByEmail(email) : o.userId = u.id]_vars

(* requestPasswordReset was called with an email of no user, in a state   *)
(* that has users and rows of otp_codes                                   *)
C7_Witness ==
    /\ last.op = "requestPasswordReset"
    /\ last.ok
    /\ UsersByEmail(last.email) = {}
    /\ users # {}
    /\ otpCodes # {}

(* C8: after a successful verifyPasswordReset(code, newPassword) with the *)
(* code requested for a user's email, login with the old password fails   *)
(* and login with the new password succeeds for that user, and every      *)
(* other user's password is unchanged.                                    *)
C8_ResetThenLogin ==
    [][\A code \in Codes, newPassword \in Passwords :
          (VerifyPasswordReset(code, newPassword) /\ last'.ok) =>
              \A u \in users :
                  (\E o \in FindFirstOtp(code, PASSWORD_RESET) :
                       o.userId = u.id) =>
                      /\ LoginError(u.email, newPassword)' = NoError
                      /\ \A oldPassword \in Passwords \ {newPassword} :
                             LoginError(u.email, oldPassword)' # NoError
                      /\ \A v \in users : v.id # u.id => v \in users']_vars

---------------------------------------------------------------------------
(* Properties of the token and session flows, checked under SpecToken *)

(* C5: login with a registered user's email and current password          *)
(* resolves to a token that validateToken accepts and that decodes to     *)
(* that user's id.                                                        *)
C5_LoginSucceeds ==
    [][\A email \in Emails, password \in Passwords :
          (/\ Login(email, password)
           /\ \E u \in users : u.email = email /\ Compare(password, u.password))
              => /\ last'.ok
                 /\ ValidateTokenResult(last'.value)
                 /\ \E u \in users : u.email = email /\ last'.value.userId = u.id]_vars

(* C6: login with an unknown email and login with a known email and a     *)
(* wrong password are rejected with the same UnauthorizedException and    *)
(* message, and neither changes a stored row.                             *)
C6_LoginFailuresAlike ==
    [][\A email \in Emails, password \in Passwords :
          (/\ Login(email, password)
           /\ \/ UsersByEmail(email) = {}
              \/ \E u \in users : u.email = email /\ ~Compare(password, u.password))
              => /\ ~last'.ok
                 /\ last'.err = ErrInvalidCredentials
                 /\ UNCHANGED db]_vars

(* login was rejected for a registered email: the password was wrong *)
C6_Witness ==
    /\ last.op = "login"
    /\ ~last.ok
    /\ last.err = ErrInvalidCredentials
    /\ UsersByEmail(last.email) # {}

LoggedOut(token) == token \in issued /\ SessionsByToken(token) = {}

(* C10: a token that was logged out and has not reached its expiry is     *)
(* still accepted: validateToken returns true, and getUserInfo,           *)
(* refreshToken and changePassword do not reject it as an invalid token.  *)
C10_LogoutDoesNotInvalidate ==
    \A token \in issued :
        (LoggedOut(token) /\ NowSeconds < token.exp) =>
            /\ ValidateTokenResult(token)
            /\ GetUserInfoError(token) = NoError
            /\ RefreshTokenError(token) # ErrRefresh
            /\ \A oldPassword \in Passwords :
                   ChangePasswordError(token, oldPassword)
                       \notin {ErrJwtMalformed, ErrJwtExpired}

(* validateToken returned true for a token that had been logged out *)
C10_Witness ==
    /\ last.op = "validateToken"
    /\ last.ret
    /\ LoggedOut(last.token)

---------------------------------------------------------------------------
(* Properties of concurrent registrations, checked under SpecReg *)

RowsOfUser(userId) ==
    {u \in users : u.id = userId}
        \cup {a \in agents : a.userId = userId}
        \cup {c \in corporateUsers : c.userId = userId}
        \cup {o \in otpCodes : o.userId = userId}

(* C2: a committed user row is never without its EMAIL_VERIFICATION code  *)
(* and the profile of its role, profile and code rows belong to committed *)
(* users, and a register call that failed after user.create has left no   *)
(* users, agents, corporate_users or otp_codes row of its user.           *)
C2_RegisterAtomic ==
    /\ \A u \in users :
           /\ \E o \in otpCodes :
                  o.userId = u.id /\ o.type = EMAIL_VERIFICATION
           /\ u.userType = AGENT => \E a \in agents : a.userId = u.id
           /\ u.userType = CORPORATE =>
                  \E c \in corporateUsers : c.userId = u.id
    /\ \A r \in agents \cup corporateUsers \cup otpCodes :
           UsersById(r.userId) # {}
    /\ \A p \in Procs :
           (reg[p].pc = "done" /\ ~reg[p].ok /\ reg[p].userId # 0)
               => RowsOfUser(reg[p].userId) = {}

(* a register call has failed after its user row was created, while       *)
(* another registration is committed                                      *)
C2_Witness ==
    /\ \E p \in Procs :
           reg[p].pc = "done" /\ ~reg[p].ok /\ reg[p].userId # 0
    /\ users # {}

(* two register calls for one email that was free when each began *)
Raced(p, q) ==
    /\ p # q
    /\ reg[p].pc = "done"
    /\ reg[q].pc = "done"
    /\ reg[p].details.email = reg[q].details.email
    /\ reg[p].emailFree
    /\ reg[q].emailFree

---------------------------------------------------------------------------
(* More properties of the token and session flows, checked under SpecToken *)

(* C11: refreshToken with a token that verifies resolves to a fresh token *)
(* of the same userId and adds exactly one session row, the one of that   *)
(* token, leaving the row of the old token in place; with a token that    *)
(* does not verify it is rejected with the UnauthorizedException of       *)
(* refreshToken and the sessions table is unchanged.                      *)
C11_RefreshIssuesFresh ==
    [][\A token \in TokenInputs :
          RefreshToken(token) =>
              IF JwtVerify(token, SECRET)
              THEN /\ last'.ok
                   /\ last'.value.userId = token.userId
                   /\ last'.value # token
                   /\ last'.value \notin {s.token : s \in sessions}
                   /\ sessions' = sessions \cup
                          {s \in sessions' : s.token = last'.value}
                   /\ Cardinality(sessions') = Cardinality(sessions) + 1
              ELSE /\ ~last'.ok
                   /\ last'.err = ErrRefresh
                   /\ sessions' = sessions]_vars

---------------------------------------------------------------------------
(* Properties of the profile lookup, checked under SpecInfo *)

HasCorporateProfile(userId) == \E c \in corporateUsers : c.userId = userId

HasAgentProfile(userId) == \E a \in agents : a.userId = userId

(* C12: getUserInfo with a token that verifies resolves to the corporate  *)
(* profile of the token's user if there is one, else to the agent profile *)
(* if there is one, else to the user row, and to null when no user row    *)
(* has the id; with a token that does not verify it is rejected with      *)
(* UnauthorizedException('Invalid token'); it changes no row.             *)
C12_GetUserInfoPrecedence ==
    [][\A token \in TokenInputs \cup {StrayToken} :
          GetUserInfo(token) =>
              /\ UNCHANGED db
              /\ IF ~JwtVerify(token, SECRET)
                 THEN ~last'.ok /\ last'.err = ErrInvalidToken
                 ELSE /\ last'.ok
                      /\ (UsersById(token.userId) = {}) <=> (last'.info = "null")
                      /\ (UsersById(token.userId) # {}) =>
                           /\ HasCorporateProfile(token.userId)
                                  => last'.info = "corporateProfile"
                           /\ (/\ ~HasCorporateProfile(token.userId)
                               /\ HasAgentProfile(token.userId))
                                  => last'.info = "agentProfile"
                           /\ (/\ ~HasCorporateProfile(token.userId)
                               /\ ~HasAgentProfile(token.userId))
                                  => last'.info = "user"]_vars

(* getUserInfo returned the corporate profile of a user who has an agent  *)
(* profile too                                                            *)
C12_Witness ==
    /\ last.op = "getUserInfo"
    /\ last.ok
    /\ last.info = "corporateProfile"
    /\ HasCorporateProfile(last.userId)
    /\ HasAgentProfile(last.userId)

---------------------------------------------------------------------------
(* Properties of the operations that take a token, checked under          *)
(* SpecAccount                                                            *)

(* C13: changePassword with a token that verifies, for a stored user:     *)
(* when the old password does not match the stored hash the call is       *)
(* rejected with UnauthorizedException('Invalid credentials') and the     *)
(* users table is unchanged; when it matches, the call resolves, the      *)
(* stored hash becomes the hash of the new password, login with the new   *)
(* password then succeeds and login with any other password fails; in     *)
(* both cases no sessions or otp_codes row changes.                       *)
C13_ChangePassword ==
    [][\A token \in TokenInputs, oldPassword \in Passwords,
          newPassword \in Passwords :
          (/\ ChangePassword(token, oldPassword, newPassword)
           /\ JwtVerify(token, SECRET))
              => \A u \in UsersById(token.userId) :
                   /\ UNCHANGED <<sessions, otpCodes>>
                   /\ IF ~Compare(oldPassword, u.password)
                      THEN /\ ~last'.ok
                           /\ last'.err = ErrInvalidCredentials
                           /\ users' = users
                      ELSE /\ last'.ok
                           /\ users' = (users \ {u}) \cup
                                  {[u EXCEPT !.password = Hash(newPassword)]}
                           /\ LoginError(u.email, newPassword)' = NoError
                           /\ \A other \in Passwords \ {newPassword} :
                                  LoginError(u.email, other)' # NoError]_vars

(* the errors of the kind the service uses for bad credentials and bad    *)
(* tokens: Nest's UnauthorizedException, whatever its message             *)
UnauthorizedErrors == {ErrInvalidCredentials, ErrRefresh, ErrInvalidToken}

(* C14: with a token whose signature is bad or whose expiry has passed,   *)
(* refreshToken, getUserInfo and changePassword are each rejected with an *)
(* UnauthorizedException and change no stored row.                        *)
C14_BadTokenSameKind ==
    [][\A token \in TokenInputs :
          ~JwtVerify(token, SECRET) =>
              /\ RefreshToken(token) =>
                     /\ ~last'.ok
                     /\ last'.err \in UnauthorizedErrors
                     /\ UNCHANGED db
              /\ GetUserInfo(token) =>
                     /\ ~last'.ok
                     /\ last'.err \in UnauthorizedErrors
                     /\ UNCHANGED db
              /\ \A oldPassword \in Passwords, newPassword \in Passwords :
                     ChangePassword(token, oldPassword, newPassword) =>
                         /\ ~last'.ok
                         /\ last'.err \in UnauthorizedErrors
                         /\ UNCHANGED db]_vars

---------------------------------------------------------------------------
(* Properties of the handlers over a failing store, checked under         *)
(* SpecFault                                                              *)

(* C15: a handler whose store call fails is rejected with the error of    *)
(* the store, and no row changes: the failure is neither swallowed nor    *)
(* replaced by an error of another kind.                                  *)
C15_StorageFailureSurfaces ==
    [][\A op \in StoreOps, token \in TokenInputs :
          StoreFailure(op, token) =>
              /\ ~last'.ok
              /\ last'.err = ErrStorage
              /\ UNCHANGED db]_vars

---------------------------------------------------------------------------
(* More properties of the one-time-code flows, checked under SpecOtp *)

(* the rows a call with this code may consume: of the kind, unverified    *)
(* and not expired                                                        *)
Acceptable(code, type) ==
    {o \in otpCodes : /\ o.code = code
                      /\ o.type = type
                      /\ ~o.verified
                      /\ o.expiresAt > now}

(* C16: a verifyEmail that resolves has matched an unverified, unexpired  *)
(* EMAIL_VERIFICATION row with the code; it sets isVerified of the row's  *)
(* user and verified of that row and changes nothing else (no password,   *)
(* no other user, no other otp_codes row, no session).  verifyEmail is    *)
(* rejected when only rows of another kind carry the code, and            *)
(* verifyPasswordReset is rejected when only rows other than              *)
(* PASSWORD_RESET carry it and consumes PASSWORD_RESET rows only.         *)
C16_VerifyEmailFrame ==
    [][\A code \in Codes :
          /\ VerifyEmail(code) =>
               /\ UNCHANGED <<agents, corporateUsers, sessions>>
               /\ IF Acceptable(code, EMAIL_VERIFICATION) = {}
                  THEN ~last'.ok /\ UNCHANGED <<users, otpCodes>>
                  ELSE /\ last'.ok
                       /\ \E o \in Acceptable(code, EMAIL_VERIFICATION) :
                            /\ otpCodes' = (otpCodes \ {o}) \cup
                                   {[o EXCEPT !.verified = TRUE]}
                            /\ users' =
                                 {IF u.id = o.userId
                                  THEN [u EXCEPT !.isVerified = TRUE]
                                  ELSE u : u \in users}
          /\ \A newPassword \in Passwords :
               VerifyPasswordReset(code, newPassword) =>
                 IF Acceptable(code, PASSWORD_RESET) = {}
                 THEN ~last'.ok /\ UNCHANGED <<users, otpCodes>>
                 ELSE /\ last'.ok
                      /\ \E o \in Acceptable(code, PASSWORD_RESET) :
                             otpCodes' = (otpCodes \ {o}) \cup
                                 {[o EXCEPT !.verified = TRUE]}]_vars

(* verifyEmail resolved for a code that an unverified PASSWORD_RESET row  *)
(* carries too: the email row is consumed, its user verified, the reset   *)
(* row left as it was                                                     *)
C16_Witness ==
    /\ last.op = "verifyEmail"
    /\ last.ok
    /\ \E o \in otpCodes :
           /\ o.id = last.otpId
           /\ o.type = EMAIL_VERIFICATION
           /\ o.verified
    /\ \E u \in users : u.id = last.userId /\ u.isVerified
    /\ \E r \in otpCodes :
           /\ r.code = last.code
           /\ r.type = PASSWORD_RESET
           /\ ~r.verified

---------------------------------------------------------------------------
(* More properties of registration, checked under SpecReg *)

AgentRowsOf(userId) == {a \in agents : a.userId = userId}

CorporateRowsOf(userId) == {c \in corporateUsers : c.userId = userId}

BaseUserFields == {"email", "password"}

(* the profile rows written by agent.create and corporateUser.create,     *)
(* committed or still inside a transaction                                *)
ProfileCreates ==
    agents \cup corporateUsers
        \cup UNION {reg[p].tx.agents \cup reg[p].tx.corporateUsers : p \in Procs}

(* C18: the data of a profile-creation call of register holds no field of *)
(* the base user.                                                         *)
C18_ProfileFieldsSelected ==
    \A row \in ProfileCreates : row.data \cap BaseUserFields = {}

---------------------------------------------------------------------------
(* Properties of issuing one-time codes, checked under SpecIssue *)

(* C19: register and requestPasswordReset add at most one otp_codes row   *)
(* and remove or change none; the row added has a code of 6 characters,   *)
(* the decimal form of a number in 100000..999999, expiresAt 15 minutes   *)
(* after the time of the call, and verified = false.                      *)
C19_IssuedOtpShape ==
    [][\A draw \in RandomDraws :
          (\/ \E details \in PlainDetails : RegisterTx(details, draw)
           \/ \E email \in Emails : RequestPasswordReset(email, draw))
              => /\ otpCodes \subseteq otpCodes'
                 /\ Cardinality(otpCodes' \ otpCodes) <= 1
                 /\ \A o \in otpCodes' \ otpCodes :
                        LET n == 100000 + draw
                        IN  /\ n \in 100000..999999
                            /\ o.code = ToString(n)
                            /\ Len(o.code) = 6
                            /\ o.expiresAt = now + 15 * 60 * 1000
                            /\ o.createdAt = now
                            /\ o.verified = FALSE]_vars

(* a second requestPasswordReset for one user: two unverified             *)
(* PASSWORD_RESET rows of that user, the later with the largest code      *)
C19_Witness ==
    /\ last.op = "requestPasswordReset"
    /\ last.code = "999999"
    /\ \E o1, o2 \in otpCodes :
           /\ o1.id # o2.id
           /\ o1.userId = o2.userId
           /\ o1.type = PASSWORD_RESET
           /\ o2.type = PASSWORD_RESET
           /\ ~o1.verified
           /\ ~o2.verified
           /\ o1.createdAt < o2.createdAt
           /\ o2.code = last.code

---------------------------------------------------------------------------
(* Properties of OtpService, checked under SpecOtpService *)

(* C20: markAsVerified with the id of a row resolves to true, sets        *)
(* verified of that row and changes no other field and no other row; on a *)
(* row that is verified already it resolves and leaves the table as it    *)
(* is; with an id of no row it is rejected and no row is created or       *)
(* changed.                                                               *)
C20_MarkAsVerifiedIdempotent ==
    [][\A id \in OtpIds :
          MarkAsVerified(id) =>
              /\ UNCHANGED <<users, agents, corporateUsers, sessions>>
              /\ IF \E o \in otpCodes : o.id = id
                 THEN /\ last'.ok
                      /\ last'.ret
                      /\ \E o \in otpCodes :
                           /\ o.id = id
                           /\ otpCodes' = (otpCodes \ {o}) \cup
                                  {[o EXCEPT !.verified = TRUE]}
                           /\ o.verified => otpCodes' = otpCodes
                 ELSE /\ ~last'.ok
                      /\ otpCodes' = otpCodes]_vars

(* markAsVerified resolved on a row that was verified before the call *)
C20_Witness ==
    /\ last.op = "markAsVerified"
    /\ last.ok
    /\ last.info = "verified before"
    /\ \E o \in otpCodes : o.id = last.otpId /\ o.verified

(* C21: findValidOtp(userId, kind, code) resolves to a row only if the    *)
(* row has that userId, kind and code, expiresAt > now and verified =     *)
(* false, and to null exactly when no row is such; it changes no row.     *)
C21_FindValidOtpExact ==
    [][\A userId \in UserIds, type \in OtpTypes, code \in Codes :
          FindValidOtp(userId, type, code) =>
              /\ UNCHANGED db
              /\ last'.ok
              /\ last'.info \in {"row", "null"}
              /\ last'.info = "row" =>
                     \E o \in otpCodes :
                         /\ o.id = last'.otpId
                         /\ o.userId = userId
                         /\ o.type = type
                         /\ o.code = code
                         /\ o.expiresAt > now
                         /\ ~o.verified
              /\ last'.info = "null" =>
                     ~\E o \in otpCodes :
                         /\ o.userId = userId
                         /\ o.type = type
                         /\ o.code = code
                         /\ o.expiresAt > now
                         /\ ~o.verified]_vars

(* findValidOtp resolved to null for a user although an unverified,       *)
(* unexpired row of the kind with the code belongs to another user, and   *)
(* the user asked for has a row that is verified                          *)
C21_Witness ==
    /\ last.op = "findValidOtp"
    /\ last.info = "null"
    /\ \E o \in otpCodes :
           /\ o.userId # last.userId
           /\ o.type = last.type
           /\ o.code = last.code
           /\ o.expiresAt > now
           /\ ~o.verified
    /\ \E o \in otpCodes : o.userId = last.userId /\ o.verified

---------------------------------------------------------------------------
(* Properties of lookups with several qualifying rows, checked under      *)
(* SpecRecent                                                             *)

(* of a set of rows, those created last *)
MostRecent(rows) ==
    {o \in rows : \A r \in rows : r.createdAt <= o.createdAt}

(* C22: when several rows qualify for a lookup (same kind and code,       *)
(* unexpired, unverified), the row findValidOtp returns and the row       *)
(* verifyPasswordReset and verifyEmail consume is the one created last.   *)
C22_MostRecentWins ==
    [][\A code \in Codes :
          /\ \A newPassword \in RegisterPasswords :
                 (VerifyPasswordReset(code, newPassword) /\ last'.ok) =>
                     \E o \in MostRecent(Acceptable(code, PASSWORD_RESET)) :
                         o.id = last'.otpId
          /\ (VerifyEmail(code) /\ last'.ok) =>
                 \E o \in MostRecent(Acceptable(code, EMAIL_VERIFICATION)) :
                     o.id = last'.otpId
          /\ \A userId \in UserIds, type \in OtpTypes :
                 (FindValidOtp(userId, type, code) /\ last'.info = "row") =>
                     \E o \in MostRecent({r \in Acceptable(code, type) :
                                            r.userId = userId}) :
                         o.id = last'.otpId]_vars

---------------------------------------------------------------------------
(* Properties of the session rows, checked under SpecToken *)

IssuingOps == {"register", "login", "refreshToken"}

(* C23: no two session rows have the same token, and a session row is     *)
(* written only by a register, login or refreshToken that resolves, under *)
(* the token the call returns, with expiresAt one hour after the time of  *)
(* the call; the token's own expiry is one hour after its issue time and  *)
(* names the same second as expiresAt.                                    *)
C23_SessionMatchesToken ==
    [][/\ \A s1, s2 \in sessions' : s1.token = s2.token => s1 = s2
       /\ \A s \in sessions' \ sessions :
              /\ last'.ok
              /\ last'.op \in IssuingOps
              /\ s.token = last'.value
              /\ s.expiresAt = now + 60 * 60 * 1000
              /\ s.token.exp - s.token.iat = 60 * 60
              /\ s.expiresAt \div 1000 = s.token.exp]_vars

(* login has issued a second token of a user in the middle of a clock     *)
(* second: two session rows of the user, the new one expiring an hour     *)
(* after the call                                                         *)
C23_Witness ==
    /\ last.op = "login"
    /\ last.ok
    /\ now % MsPerSecond # 0
    /\ \E s1, s2 \in sessions :
           /\ s1.token = last.value
           /\ s1.expiresAt = now + SessionTtlMs
           /\ s2.token # s1.token
           /\ s2.token.userId = s1.token.userId

---------------------------------------------------------------------------
(* Properties of the responses, checked under SpecHttp *)

(* C24: POST otp-codes/validate answers 404 when no valid code matches,   *)
(* POST auth/login answers 401 on invalid credentials, and POST           *)
(* auth/verify-password-reset answers 400 on an invalid or expired code;  *)
(* none of them answers 500 for these outcomes.                           *)
C24_ClientErrorStatus ==
    /\ (last.op = "findValidOtp" /\ last.info = "null")
           => FindValidOtpStatus(last) = 404
    /\ (last.op = "login" /\ ~last.ok /\ last.err = ErrInvalidCredentials)
           => LoginStatus(last) = 401
    /\ (last.op = "verifyPasswordReset" /\ ~last.ok
           /\ last.err = ErrInvalidResetOtp)
           => VerifyPasswordResetStatus(last) = 400

---------------------------------------------------------------------------
(* Properties of concurrent verify requests, checked under SpecVerify *)

(* two verify calls of one operation with one code that matched the same  *)
(* row                                                                    *)
SameRow(p, q) ==
    /\ p # q
    /\ calls[p].op \in VerifyOps
    /\ calls[p].op = calls[q].op
    /\ calls[p].code = calls[q].code
    /\ calls[p].otp # NoOtp
    /\ calls[p].otp.id = calls[q].otp.id

(* C25: of two verifyPasswordReset (or two verifyEmail) calls with one    *)
(* code that run concurrently against one unverified, unexpired row, at   *)
(* most one succeeds, and at most one of them changes the user.           *)
C25_ConcurrentVerifyOnce ==
    \A p, q \in Procs :
        SameRow(p, q) =>
            /\ ~(/\ calls[p].pc = "done" /\ calls[p].ok
                 /\ calls[q].pc = "done" /\ calls[q].ok)
            /\ ~(calls[p].userUpdated /\ calls[q].userUpdated)

(* the row a finished verify call matched, as it is stored now *)
StoredOtp(p) == {o \in otpCodes : o.id = calls[p].otp.id}

(* C27: when a verifyPasswordReset or verifyEmail call has ended, with    *)
(* success or with an error, the call has changed the user's password     *)
(* (respectively verified flag) if and only if the row it matched has     *)
(* verified = true.                                                       *)
C27_VerifyAllOrNothing ==
    \A p \in Procs :
        (calls[p].op \in VerifyOps /\ calls[p].pc = "done"
            /\ calls[p].otp # NoOtp) =>
            \A o \in StoredOtp(p) : calls[p].userUpdated <=> o.verified

---------------------------------------------------------------------------
(* Properties of the writes to otp_codes, checked under SpecOtpWrites *)

(* C26: no operation sets verified of a row back to false and none moves  *)
(* expiresAt of a row later, so a row that is not acceptable because it   *)
(* is verified or expired does not become acceptable again.               *)
C26_OtpMonotonic ==
    [][\A o \in otpCodes, r \in otpCodes' :
          r.id = o.id =>
              /\ o.verified => r.verified
              /\ r.expiresAt <= o.expiresAt
              /\ (o.verified \/ o.expiresAt <= now)
                     => (r.verified \/ r.expiresAt <= now')]_vars

---------------------------------------------------------------------------
(* More properties of token issuance, checked under SpecToken *)

(* a register, login or refreshToken call is the step being taken *)
IssueStep ==
    \/ \E details \in PlainDetails : RegisterTx(details, 0)
    \/ \E email \in Emails, password \in Passwords : Login(email, password)
    \/ \E token \in TokenInputs : RefreshToken(token)

(* C28: the session insert of a register, login or refreshToken call      *)
(* never fails on the unique token index, and a token such a call         *)
(* returns was returned by no earlier call.                               *)
C28_TokensDistinct ==
    [][IssueStep =>
          /\ last'.err = ErrUnique =>
                 (last'.op = "register" /\ UsersByEmail(last'.email) # {})
          /\ last'.ok => last'.value \notin issued]_vars

---------------------------------------------------------------------------
(* Properties of the session rows of register, checked under SpecReg *)

(* a register request that is between its user.create and its end *)
Registering(userId) ==
    \E p \in Procs :
        /\ reg[p].userId = userId
        /\ reg[p].pc \in {"createProfile", "createOtp", "generateToken",
                          "commit"}

(* C29: a register call that has failed has left no session row of its    *)
(* user, and the token of every session row decodes to the id of a stored *)
(* user (or of the user of a register call still under way).              *)
C29_NoOrphanSession ==
    /\ \A p \in Procs :
           (reg[p].pc = "done" /\ ~reg[p].ok /\ reg[p].userId # 0) =>
               ~\E s \in sessions : s.token.userId = reg[p].userId
    /\ \A s \in sessions :
           UsersById(s.token.userId) # {} \/ Registering(s.token.userId)

---------------------------------------------------------------------------
(* Properties of deleteById, checked under SpecDelete *)

(* C30: a deleteById call never fails; it resolves to true exactly when   *)
(* it removed the row and to false when the row is absent, so of two      *)
(* concurrent calls for one row one resolves to true and the other to     *)
(* false.                                                                 *)
C30_DeleteByIdResolves ==
    /\ \A p \in Procs :
           (calls[p].op = "deleteById" /\ calls[p].pc = "done") =>
               /\ calls[p].ok
               /\ calls[p].ret <=> calls[p].removed
    /\ \A p, q \in Procs :
           (/\ p # q
            /\ calls[p].op = "deleteById" /\ calls[p].pc = "done"
            /\ calls[q].op = "deleteById" /\ calls[q].pc = "done"
            /\ calls[p].otp # NoOtp
            /\ calls[p].otp = calls[q].otp) =>
               /\ calls[p].ok /\ calls[q].ok
               /\ calls[p].ret # calls[q].ret

===========================================================================
